---------------------------- MODULE Spec2Model ----------------------------
(***************************************************************************)
(* A model of the rust-gcode crate: the fixed-point GCodePosition value    *)
(* type (src/src/position.rs), the GCodeWriter (src/src/writer.rs) and the *)
(* GCodeError conversion (src/src/lib.rs).                                 *)
(*                                                                         *)
(* Word widths.  TLC's integers are 32 bits wide, so the machine widths of *)
(* the source are scaled down and kept symbolic: an i64 is an I64_BITS-bit *)
(* two's complement integer, an f64 carries F64_MANT_BITS significant bits *)
(* and FIXED_SCALE is 1 << FIXED_SHIFT.  Every operator is written against *)
(* these names, exactly as the source is written against i64, f64 and      *)
(* FIXED_SCALE, and the order of the source's widths is kept:              *)
(*      FIXED_SHIFT < F64_MANT_BITS < I64_BITS - 1      (16 < 53 < 63).    *)
(* The i128 intermediates of mul/div hold every product of two i64 values  *)
(* exactly, so they are the unbounded integers of TLA+.                    *)
(***************************************************************************)
EXTENDS Integers, Sequences, FiniteSets

VARIABLES
    pos,              \* the caller's GCodePosition binding
    last,             \* the last position operation: its operands and outcome
    overflow_checks,  \* build profile: are integer overflow checks compiled in
    steps,            \* operations performed so far
    sink,             \* the characters the destination has received
    nflush,           \* flush() calls the destination has received
    owner,            \* who holds the destination: "writer" or "caller"
    wlast,            \* the last writer operation: its arguments and outcome
    emitted,          \* history: the texts of the move_to calls made so far
    calls,            \* writer operations performed so far
    failures          \* destination failures so far

vars ==
    <<pos, last, overflow_checks, steps,
      sink, nflush, owner, wlast, emitted, calls, failures>>

posVars == <<pos, last, overflow_checks, steps>>
writerVars == <<sink, nflush, owner, wlast, emitted, calls, failures>>

(***************************************************************************)
(* Bounds of the model.                                                    *)
(***************************************************************************)
\* width of the modelled i64 (64 in the source)
I64_BITS == 10
\* significant bits of the modelled f64 (53 in the source)
F64_MANT_BITS == 7
\* log2 of FIXED_SCALE (16 in the source)
FIXED_SHIFT == 5
\* position operations in one run
MaxSteps == 3
\* writer operations in one run
MaxCalls == 3
\* destination failures in one run
MaxFailures == 1
\* characters of a token a failing write may still deliver
MaxPartial == 1

(***************************************************************************)
(* Integers: i64, i128 and their arithmetic.                               *)
(***************************************************************************)
I64_MAX == 2^(I64_BITS - 1) - 1
I64_MIN == -(2^(I64_BITS - 1))

InI64(v) == v >= I64_MIN /\ v <= I64_MAX

Abs(v) == IF v < 0 THEN -v ELSE v

Sign(v) == IF v < 0 THEN -1 ELSE 1

\* Rust's integer division: the quotient truncated toward zero.
TruncDiv(a, b) == Sign(a) * Sign(b) * (Abs(a) \div Abs(b))

\* two's complement wrapping of an i64 result (overflow checks compiled out)
WrapI64(v) == ((v - I64_MIN) % 2^I64_BITS) + I64_MIN

\* number of bits of a natural number
RECURSIVE BitLen(_)
BitLen(n) == IF n = 0 THEN 0 ELSE 1 + BitLen(n \div 2)

(***************************************************************************)
(* Option<T>.                                                              *)
(***************************************************************************)
None == [some |-> FALSE, v |-> 0]
Some(v) == [some |-> TRUE, v |-> v]

(***************************************************************************)
(* f64: a finite value is m * 2^e; NaN and the infinities are kept apart.  *)
(***************************************************************************)
Fin(m, e) == [k |-> "fin", m |-> m, e |-> e]
NaN == [k |-> "nan", m |-> 0, e |-> 0]
Inf(s) == [k |-> "inf", m |-> s, e |-> 0]

Min2(a, b) == IF a < b THEN a ELSE b

\* a > b and a < b on f64: false as soon as one side is NaN
F64Gt(a, b) ==
    IF a.k = "nan" \/ b.k = "nan" THEN FALSE
    ELSE IF a.k = "inf" THEN a.m > 0 /\ ~(b.k = "inf" /\ b.m > 0)
    ELSE IF b.k = "inf" THEN b.m < 0
    ELSE LET c == Min2(a.e, b.e)
         IN  a.m * 2^(a.e - c) > b.m * 2^(b.e - c)

F64Lt(a, b) == F64Gt(b, a)

\* val * 2^bits: exact, a change of exponent
F64MulPow2(val, bits) == IF val.k = "fin" THEN Fin(val.m, val.e + bits) ELSE val

\* val / 2^bits: exact, a change of exponent
F64DivPow2(val, bits) == IF val.k = "fin" THEN Fin(val.m, val.e - bits) ELSE val

\* `v as f64`: the nearest f64, ties to the even mantissa
I64ToF64(v) ==
    LET a == Abs(v)
        shift == BitLen(a) - F64_MANT_BITS
    IN  IF shift <= 0 THEN Fin(v, 0)
        ELSE LET q == a \div 2^shift
                 r == a % 2^shift
                 half == 2^(shift - 1)
                 up == r > half \/ (r = half /\ q % 2 = 1)
             IN  Fin(Sign(v) * (IF up THEN q + 1 ELSE q), shift)

\* `val as i64`: truncation toward zero, saturating; NaN gives 0
F64ToI64(val) ==
    IF val.k = "nan" THEN 0
    ELSE IF val.k = "inf" THEN (IF val.m > 0 THEN I64_MAX ELSE I64_MIN)
    ELSE LET t == IF val.e >= 0 THEN val.m * 2^val.e
                  ELSE TruncDiv(val.m, 2^(-val.e))
         IN  IF t > I64_MAX THEN I64_MAX
             ELSE IF t < I64_MIN THEN I64_MIN
             ELSE t

(***************************************************************************)
(* GCodeError and results.                                                 *)
(***************************************************************************)
IOError == "IOError"
OutOfRangeError == "OutOfRangeError"

Ok(v) == [ok |-> TRUE, val |-> v, err |-> "none"]
Err(e, dflt) == [ok |-> FALSE, val |-> dflt, err |-> e]

\* impl From<std::io::Error> for GCodeError: every kind maps to IOError
FromIoError(kind) == IOError

(***************************************************************************)
(* GCodePosition.                                                          *)
(***************************************************************************)
FIXED_SCALE == 2^FIXED_SHIFT

NoPosition == [x |-> None, y |-> None, z |-> None]

f64_to_fixed(val) ==
    LET scaled == F64MulPow2(val, FIXED_SHIFT)
    IN  IF F64Gt(scaled, I64ToF64(I64_MAX)) \/ F64Lt(scaled, I64ToF64(I64_MIN))
        THEN Err(OutOfRangeError, 0)
        ELSE Ok(F64ToI64(scaled))

\* one field of from_f64: Some(f64_to_fixed(v)?) or None
FixedField(a) ==
    IF a.some
    THEN LET r == f64_to_fixed(a.v)
         IN  IF r.ok THEN Ok(Some(r.val)) ELSE Err(r.err, None)
    ELSE Ok(None)

from_f64(x, y, z) ==
    LET rx == FixedField(x)
        ry == FixedField(y)
        rz == FixedField(z)
    IN  IF ~rx.ok THEN Err(rx.err, NoPosition)
        ELSE IF ~ry.ok THEN Err(ry.err, NoPosition)
        ELSE IF ~rz.ok THEN Err(rz.err, NoPosition)
        ELSE Ok([x |-> rx.val, y |-> ry.val, z |-> rz.val])

from_f64_full(x, y, z) == from_f64(Some(x), Some(y), Some(z))

from_raw(x, y, z) == [x |-> x, y |-> y, z |-> z]

from_raw_full(x, y, z) == from_raw(Some(x), Some(y), Some(z))

\* self.<axis>.map(|val| (val as f64) / (FIXED_SCALE as f64))
AxisF64(a) ==
    IF a.some THEN Some(F64DivPow2(I64ToF64(a.v), FIXED_SHIFT)) ELSE None

x_f64(p) == AxisF64(p.x)
y_f64(p) == AxisF64(p.y)
z_f64(p) == AxisF64(p.z)

as_f64(p) == <<AxisF64(p.x), AxisF64(p.y), AxisF64(p.z)>>


\* a panic!: the thread unwinds and the operation returns nothing
Panic(dflt) == [ok |-> FALSE, val |-> dflt, err |-> "panic"]

\* l + r and l - r on i64: exact when the result fits; otherwise a panic with
\* overflow checks compiled in and the wrapped result without them
I64Arith(exact, checks) ==
    IF InI64(exact) THEN Ok(exact)
    ELSE IF checks THEN Panic(0)
    ELSE Ok(WrapI64(exact))

\* AddAxis miscoded as "defined if either side is defined"
AddAxis_EitherDefined(l, r, checks) ==
    IF l.some /\ r.some
    THEN LET s == I64Arith(l.v + r.v, checks)
         IN  IF s.ok THEN Ok(Some(s.val)) ELSE Panic(None)
    ELSE IF l.some THEN Ok(l) ELSE Ok(r)

\* if let (Some(l), Some(r)) = (self.a, rhs.a) { Some(l + r) } else { self.a }
AddAxis(l, r, checks) ==
    IF l.some /\ r.some
    THEN LET s == I64Arith(l.v + r.v, checks)
         IN  IF s.ok THEN Ok(Some(s.val)) ELSE Panic(None)
    ELSE Ok(l)

\* if let (Some(l), Some(r)) = (self.a, rhs.a) { Some(l - r) } else { self.a }
SubAxis(l, r, checks) ==
    IF l.some /\ r.some
    THEN LET s == I64Arith(l.v - r.v, checks)
         IN  IF s.ok THEN Ok(Some(s.val)) ELSE Panic(None)
    ELSE Ok(l)

\* a struct literal of three field expressions, any of which may panic
Fields(rx, ry, rz) ==
    IF rx.ok /\ ry.ok /\ rz.ok
    THEN Ok([x |-> rx.val, y |-> ry.val, z |-> rz.val])
    ELSE Panic(NoPosition)

add(self, rhs, checks) ==
    Fields(AddAxis(self.x, rhs.x, checks),
           AddAxis(self.y, rhs.y, checks),
           AddAxis(self.z, rhs.z, checks))

add_assign(self, rhs, checks) == add(self, rhs, checks)

sub(self, rhs, checks) ==
    Fields(SubAxis(self.x, rhs.x, checks),
           SubAxis(self.y, rhs.y, checks),
           SubAxis(self.z, rhs.z, checks))

sub_assign(self, rhs, checks) == sub(self, rhs, checks)

\* mul_fixed with a flooring instead of a truncating division
mul_fixed_Floor(val, fixed) ==
    LET res == (val * fixed) \div FIXED_SCALE
    IN  IF res > I64_MAX \/ res < I64_MIN THEN Panic(0) ELSE Ok(res)

\* the closure mul_fixed of Mul::mul
mul_fixed(val, fixed) ==
    LET res == TruncDiv(val * fixed, FIXED_SCALE)
    IN  IF res > I64_MAX \/ res < I64_MIN THEN Panic(0) ELSE Ok(res)

\* the closure div_fixed of Div::div; an i128 division by zero panics
div_fixed(val, fixed) ==
    IF fixed = 0 THEN Panic(0)
    ELSE LET res == TruncDiv(val * FIXED_SCALE, fixed)
         IN  IF res > I64_MAX \/ res < I64_MIN THEN Panic(0) ELSE Ok(res)

\* self.a.map(mul_fixed)
MulAxis(a, fixed) ==
    IF a.some
    THEN LET r == mul_fixed(a.v, fixed)
         IN  IF r.ok THEN Ok(Some(r.val)) ELSE Panic(None)
    ELSE Ok(None)

\* self.a.map(div_fixed)
DivAxis(a, fixed) ==
    IF a.some
    THEN LET r == div_fixed(a.v, fixed)
         IN  IF r.ok THEN Ok(Some(r.val)) ELSE Panic(None)
    ELSE Ok(None)

mul(self, rhs) ==
    LET fixed == f64_to_fixed(rhs)
    IN  IF ~fixed.ok THEN Panic(NoPosition)
        ELSE Fields(MulAxis(self.x, fixed.val),
                    MulAxis(self.y, fixed.val),
                    MulAxis(self.z, fixed.val))

mul_assign(self, rhs) == mul(self, rhs)

div(self, rhs) ==
    LET fixed == f64_to_fixed(rhs)
    IN  IF ~fixed.ok THEN Panic(NoPosition)
        ELSE Fields(DivAxis(self.x, fixed.val),
                    DivAxis(self.y, fixed.val),
                    DivAxis(self.z, fixed.val))

div_assign(self, rhs) == div(self, rhs)

(***************************************************************************)
(* The inputs of the position operations.                                  *)
(***************************************************************************)
\* raw axis values: absent, the two ends of the i64 range, small values
RawAxis ==
    <<None, Some(I64_MIN), Some(-3), None, Some(1), Some(I64_MAX)>>

\* f64 axis values: absent, 1.0, -3/2 and 11/4 of a fixed-point unit apart
\* from zero, the scaled value exactly I64_MIN, exactly I64_MAX + 1, twice
\* either, NaN and +infinity
F64Axis ==
    <<None,
      Some(Fin(1, 0)),
      Some(Fin(-3, -(FIXED_SHIFT + 1))),
      Some(Fin(11, -(FIXED_SHIFT + 2))),
      Some(Fin(-1, I64_BITS - 1 - FIXED_SHIFT)),
      Some(Fin(1, I64_BITS - 1 - FIXED_SHIFT)),
      Some(Fin(1, I64_BITS - FIXED_SHIFT)),
      Some(Fin(-1, I64_BITS - FIXED_SHIFT)),
      Some(NaN),
      Some(Inf(1))>>

\* the element after i, and the one after that, going round
Rot(seq, i, by) == seq[((i - 1 + by) % Len(seq)) + 1]

\* scalars: 2, 1/2, -1/2, 0, 3/2 of a fixed-point unit, the scaled value
\* exactly I64_MAX + 1, twice that, NaN
Scalars ==
    { Fin(2, 0), Fin(1, -1), Fin(-1, -1), Fin(0, 0),
      Fin(3, -(FIXED_SHIFT + 1)),
      Fin(1, I64_BITS - 1 - FIXED_SHIFT),
      Fin(1, I64_BITS - FIXED_SHIFT),
      NaN }

(***************************************************************************)
(* The position operations as actions.  A panic ends the run.              *)
(***************************************************************************)
NoArgs == [x |-> None, y |-> None, z |-> None]

Record(op, lhs, rhs, scalar, args, res) ==
    [op |-> op, lhs |-> lhs, rhs |-> rhs, scalar |-> scalar, args |-> args,
     res |-> res]

Aborted == last.res.err = "panic"

CanStep == ~Aborted /\ steps < MaxSteps

\* the binding after `pos = <result>`: unchanged when no value was produced
Bind(res) == IF res.ok THEN res.val ELSE pos

PosInit ==
    /\ pos = NoPosition
    /\ last = Record("new", NoPosition, NoPosition, NaN, NoArgs, Ok(NoPosition))
    /\ overflow_checks \in BOOLEAN
    /\ steps = 0

FromF64 ==
    /\ CanStep
    /\ \E i \in 1..Len(F64Axis) :
         LET x == F64Axis[i]
             y == Rot(F64Axis, i, 1)
             z == Rot(F64Axis, i, 2)
             res == from_f64(x, y, z)
         IN  /\ pos' = Bind(res)
             /\ last' = Record("from_f64", pos, NoPosition, NaN,
                               [x |-> x, y |-> y, z |-> z], res)
    /\ steps' = steps + 1
    /\ UNCHANGED <<overflow_checks, writerVars>>

FromRaw ==
    /\ CanStep
    /\ \E i \in 1..Len(RawAxis) :
         LET x == RawAxis[i]
             y == Rot(RawAxis, i, 1)
             z == Rot(RawAxis, i, 2)
             res == Ok(from_raw(x, y, z))
         IN  /\ pos' = Bind(res)
             /\ last' = Record("from_raw", pos, NoPosition, NaN,
                               [x |-> x, y |-> y, z |-> z], res)
    /\ steps' = steps + 1
    /\ UNCHANGED <<overflow_checks, writerVars>>

RawPositions ==
    { from_raw(RawAxis[i], Rot(RawAxis, i, 1), Rot(RawAxis, i, 2)) :
        i \in 1..Len(RawAxis) }

Add ==
    /\ CanStep
    /\ \E rhs \in RawPositions :
         LET res == add(pos, rhs, overflow_checks)
         IN  /\ pos' = Bind(res)
             /\ last' = Record("add", pos, rhs, NaN, NoArgs, res)
    /\ steps' = steps + 1
    /\ UNCHANGED <<overflow_checks, writerVars>>

AddAssign ==
    /\ CanStep
    /\ \E rhs \in RawPositions :
         LET res == add_assign(pos, rhs, overflow_checks)
         IN  /\ pos' = Bind(res)
             /\ last' = Record("add_assign", pos, rhs, NaN, NoArgs, res)
    /\ steps' = steps + 1
    /\ UNCHANGED <<overflow_checks, writerVars>>

Sub ==
    /\ CanStep
    /\ \E rhs \in RawPositions :
         LET res == sub(pos, rhs, overflow_checks)
         IN  /\ pos' = Bind(res)
             /\ last' = Record("sub", pos, rhs, NaN, NoArgs, res)
    /\ steps' = steps + 1
    /\ UNCHANGED <<overflow_checks, writerVars>>

SubAssign ==
    /\ CanStep
    /\ \E rhs \in RawPositions :
         LET res == sub_assign(pos, rhs, overflow_checks)
         IN  /\ pos' = Bind(res)
             /\ last' = Record("sub_assign", pos, rhs, NaN, NoArgs, res)
    /\ steps' = steps + 1
    /\ UNCHANGED <<overflow_checks, writerVars>>

Mul ==
    /\ CanStep
    /\ \E s \in Scalars :
         LET res == mul(pos, s)
         IN  /\ pos' = Bind(res)
             /\ last' = Record("mul", pos, NoPosition, s, NoArgs, res)
    /\ steps' = steps + 1
    /\ UNCHANGED <<overflow_checks, writerVars>>

MulAssign ==
    /\ CanStep
    /\ \E s \in Scalars :
         LET res == mul_assign(pos, s)
         IN  /\ pos' = Bind(res)
             /\ last' = Record("mul_assign", pos, NoPosition, s, NoArgs, res)
    /\ steps' = steps + 1
    /\ UNCHANGED <<overflow_checks, writerVars>>

Div ==
    /\ CanStep
    /\ \E s \in Scalars :
         LET res == div(pos, s)
         IN  /\ pos' = Bind(res)
             /\ last' = Record("div", pos, NoPosition, s, NoArgs, res)
    /\ steps' = steps + 1
    /\ UNCHANGED <<overflow_checks, writerVars>>

DivAssign ==
    /\ CanStep
    /\ \E s \in Scalars :
         LET res == div_assign(pos, s)
         IN  /\ pos' = Bind(res)
             /\ last' = Record("div_assign", pos, NoPosition, s, NoArgs, res)
    /\ steps' = steps + 1
    /\ UNCHANGED <<overflow_checks, writerVars>>

(***************************************************************************)
(* Text: a sequence of one-character strings.                              *)
(***************************************************************************)
DigitChars == <<"0", "1", "2", "3", "4", "5", "6", "7", "8", "9">>

RECURSIVE DecDigits(_)
\* the decimal digits of a natural number
DecDigits(n) ==
    IF n < 10 THEN <<DigitChars[n + 1]>>
    ELSE DecDigits(n \div 10) \o <<DigitChars[(n % 10) + 1]>>

RECURSIVE ZeroPad(_, _)
\* the digits of n, padded with zeros on the left to the given width
ZeroPad(n, width) ==
    IF width = 0 THEN <<>>
    ELSE ZeroPad(n \div 10, width - 1) \o <<DigitChars[(n % 10) + 1]>>

\* "{:.prec}" of an f64: the exact value rounded to prec decimals, ties to
\* the even digit; the sign of a negative value is kept when it rounds to 0
FmtPrec(val, prec) ==
    IF val.k = "nan" THEN <<"N", "a", "N">>
    ELSE IF val.k = "inf"
    THEN (IF val.m < 0 THEN <<"-">> ELSE <<>>) \o <<"i", "n", "f">>
    ELSE LET num == Abs(val.m) * (IF val.e > 0 THEN 2^val.e ELSE 1)
             den == IF val.e < 0 THEN 2^(-val.e) ELSE 1
             scaled == num * 10^prec
             q == scaled \div den
             r == scaled % den
             up == 2 * r > den \/ (2 * r = den /\ q % 2 = 1)
             rounded == IF up THEN q + 1 ELSE q
         IN  (IF val.m < 0 THEN <<"-">> ELSE <<>>)
             \o DecDigits(rounded \div 10^prec)
             \o (IF prec > 0 THEN <<".">> ELSE <<>>)
             \o ZeroPad(rounded % 10^prec, prec)

(***************************************************************************)
(* The destination: a dyn Write.  It holds the characters it has received  *)
(* and the number of flush calls; a call that fails is described by `fail`:*)
(* which write of the operation fails (0: none), how many characters of    *)
(* that write it still takes, and the std::io::ErrorKind it reports.       *)
(***************************************************************************)
IoKinds == {"WriteZero", "Other"}

NoFail == [at |-> 0, partial |-> 0, kind |-> "Other"]

Prefix(text, n) == SubSeq(text, 1, Min2(n, Len(text)))

\* the state of a running move_to: the destination, the result so far (an
\* Err once a `?` has returned), the writes made
Running(dest) == [dest |-> dest, res |-> Ok(0), writes |-> 0]

\* write!(self.writer, ...)?: one write_fmt call on the destination
WriteFmt(st, text, fail) ==
    IF ~st.res.ok THEN st
    ELSE IF st.writes + 1 = fail.at
    THEN [dest |-> [st.dest EXCEPT !.sink = @ \o Prefix(text, fail.partial)],
          res |-> Err(FromIoError(fail.kind), 0),
          writes |-> st.writes + 1]
    ELSE [dest |-> [st.dest EXCEPT !.sink = @ \o text],
          res |-> Ok(0),
          writes |-> st.writes + 1]

(***************************************************************************)
(* GCodeWriter.                                                            *)
(***************************************************************************)
GCodeOptions(feed_rate) == [feed_rate |-> feed_rate]

\* GCodeWriter::new: the writer owns a destination that has received nothing
new == [sink |-> <<>>, nflush |-> 0]

\* move_to leaving a gap where an axis is absent
move_to_Gap(dest, p, options, fast, fail) ==
    LET code == IF fast THEN <<"G", "0", "0">> ELSE <<"G", "0", "1">>
        f == as_f64(p)
        s0 == WriteFmt(Running(dest), code, fail)
        s1 == IF f[1].some
              THEN WriteFmt(s0, <<" ", "X">> \o FmtPrec(f[1].v, 4), fail)
              ELSE WriteFmt(s0, <<" ">>, fail)
        s2 == IF f[2].some
              THEN WriteFmt(s1, <<" ", "Y">> \o FmtPrec(f[2].v, 4), fail)
              ELSE WriteFmt(s1, <<" ">>, fail)
        s3 == IF f[3].some
              THEN WriteFmt(s2, <<" ", "Z">> \o FmtPrec(f[3].v, 4), fail)
              ELSE WriteFmt(s2, <<" ">>, fail)
        s4 == IF options.some
              THEN IF options.v.feed_rate.some
                   THEN WriteFmt(s3, <<" ", "F">>
                                     \o FmtPrec(options.v.feed_rate.v, 2), fail)
                   ELSE s3
              ELSE s3
    IN  s4

move_to(dest, p, options, fast, fail) ==
    LET code == IF fast THEN <<"G", "0", "0">> ELSE <<"G", "0", "1">>
        f == as_f64(p)
        s0 == WriteFmt(Running(dest), code, fail)
        s1 == IF f[1].some
              THEN WriteFmt(s0, <<" ", "X">> \o FmtPrec(f[1].v, 4), fail)
              ELSE s0
        s2 == IF f[2].some
              THEN WriteFmt(s1, <<" ", "Y">> \o FmtPrec(f[2].v, 4), fail)
              ELSE s1
        s3 == IF f[3].some
              THEN WriteFmt(s2, <<" ", "Z">> \o FmtPrec(f[3].v, 4), fail)
              ELSE s2
        s4 == IF options.some
              THEN IF options.v.feed_rate.some
                   THEN WriteFmt(s3, <<" ", "F">>
                                     \o FmtPrec(options.v.feed_rate.v, 2), fail)
                   ELSE s3
              ELSE s3
    IN  s4

\* flush reporting success whatever the destination answers
flush_Swallowed(dest, fail) ==
    [dest |-> [dest EXCEPT !.nflush = @ + 1], res |-> Ok(0), writes |-> 0]

\* GCodeWriter::flush: one flush call on the destination
flush(dest, fail) ==
    [dest |-> [dest EXCEPT !.nflush = @ + 1],
     res |-> IF fail.at = 1 THEN Err(IOError, 0) ELSE Ok(0),
     writes |-> 0]

\* writer() flushing the destination before it hands it back
writer_Flushing(dest) == [dest EXCEPT !.nflush = @ + 1]

\* GCodeWriter::writer: hands the destination back as it is
writer(dest) == dest

(***************************************************************************)
(* The inputs of the writer operations.                                    *)
(***************************************************************************)
NoOptions == [some |-> FALSE, v |-> GCodeOptions(None)]

\* the calls of tests::move_to, and two rapid moves: one with options but no
\* feed rate, one with no axis at all and a feed rate of 1/8
MoveInputs ==
    <<[p |-> from_raw_full(FIXED_SCALE, 2 * FIXED_SCALE, 3 * FIXED_SCALE),
       options |-> NoOptions, fast |-> FALSE],
      [p |-> from_raw_full(FIXED_SCALE + 3, 2 * FIXED_SCALE + 6,
                           3 * FIXED_SCALE + 9),
       options |-> Some(GCodeOptions(Some(Fin(1200, 0)))), fast |-> FALSE],
      [p |-> from_raw(Some(FIXED_SCALE), None, Some(3 * FIXED_SCALE)),
       options |-> NoOptions, fast |-> FALSE],
      [p |-> from_raw(None, Some(-1), Some(I64_MAX)),
       options |-> Some(GCodeOptions(None)), fast |-> TRUE],
      [p |-> NoPosition,
       options |-> Some(GCodeOptions(Some(Fin(1, -3)))), fast |-> TRUE]>>

\* how a call may fail: at one of its first `writes` writes, after a part
\* of that write
Fails(writes) ==
    { [at |-> a, partial |-> n, kind |-> k] :
        a \in 1..writes, n \in 0..MaxPartial, k \in IoKinds }

(***************************************************************************)
(* The writer operations as actions.                                       *)
(***************************************************************************)
WRecord(op, in, fail, out, before) ==
    [op |-> op, p |-> in.p, options |-> in.options, fast |-> in.fast,
     failAt |-> fail.at, res |-> out.res, writes |-> out.writes,
     before |-> before]

Dest == [sink |-> sink, nflush |-> nflush]

CanCall == owner = "writer" /\ calls < MaxCalls

\* the text a move_to call emits on its own, on a fresh destination
TextOf(in) == move_to(new, in.p, in.options, in.fast, NoFail).dest.sink

WriterInit ==
    /\ sink = new.sink
    /\ nflush = new.nflush
    /\ owner = "writer"
    /\ wlast = WRecord("new", MoveInputs[1], NoFail, Running(new), new)
    /\ emitted = <<>>
    /\ calls = 0
    /\ failures = 0

Finish(op, in, fail, out) ==
    /\ sink' = out.dest.sink
    /\ nflush' = out.dest.nflush
    /\ wlast' = WRecord(op, in, fail, out, Dest)
    /\ calls' = calls + 1
    /\ failures' = IF fail.at = 0 THEN failures ELSE failures + 1
    /\ UNCHANGED <<owner, posVars>>

MoveTo ==
    /\ CanCall
    /\ \E i \in 1..Len(MoveInputs) :
         LET in == MoveInputs[i]
         IN  /\ Finish("move_to", in, NoFail,
                       move_to(Dest, in.p, in.options, in.fast, NoFail))
             /\ emitted' = Append(emitted, [text |-> TextOf(in), ok |-> TRUE])

MoveToFailing ==
    /\ CanCall
    /\ failures < MaxFailures
    /\ \E i \in 1..Len(MoveInputs) :
         LET in == MoveInputs[i]
             n == move_to(Dest, in.p, in.options, in.fast, NoFail).writes
         IN  \E fail \in Fails(n) :
               /\ Finish("move_to", in, fail,
                         move_to(Dest, in.p, in.options, in.fast, fail))
               /\ emitted' = Append(emitted, [text |-> TextOf(in), ok |-> FALSE])

Flush ==
    /\ CanCall
    /\ Finish("flush", MoveInputs[1], NoFail, flush(Dest, NoFail))
    /\ UNCHANGED emitted

FlushFailing ==
    /\ CanCall
    /\ failures < MaxFailures
    /\ \E k \in IoKinds :
         Finish("flush", MoveInputs[1], [at |-> 1, partial |-> 0, kind |-> k],
                flush(Dest, [at |-> 1, partial |-> 0, kind |-> k]))
    /\ UNCHANGED emitted

Release ==
    /\ CanCall
    /\ LET d == writer(Dest)
       IN  /\ sink' = d.sink
           /\ nflush' = d.nflush
           /\ wlast' = WRecord("writer", MoveInputs[1], NoFail,
                               Running(d), Dest)
    /\ owner' = "caller"
    /\ calls' = calls + 1
    /\ UNCHANGED <<emitted, failures, posVars>>

\* no position operation has run; the writer never adds or subtracts i64
\* values, so the build profile is immaterial to it
PosIdle ==
    /\ pos = NoPosition
    /\ last = Record("new", NoPosition, NoPosition, NaN, NoArgs, Ok(NoPosition))
    /\ overflow_checks = TRUE
    /\ steps = 0

Init == PosInit /\ WriterInit

Next ==
    \/ FromF64
    \/ FromRaw
    \/ Add
    \/ AddAssign
    \/ Sub
    \/ SubAssign
    \/ Mul
    \/ MulAssign
    \/ Div
    \/ DivAssign

\* the position operations
Spec == Init /\ [][Next]_vars

WriterNext ==
    \/ MoveTo
    \/ MoveToFailing
    \/ Flush
    \/ FlushFailing
    \/ Release

\* the writer operations
WriterStart == PosIdle /\ WriterInit

WriterSpec == WriterStart /\ [][WriterNext]_vars

(***************************************************************************)
(* Properties of the position operations.                                  *)
(***************************************************************************)
Axes == {"x", "y", "z"}

AddOps == {"add", "add_assign"}
SubOps == {"sub", "sub_assign"}
MulOps == {"mul", "mul_assign"}
DivOps == {"div", "div_assign"}

\* the mathematical sum or difference of one axis of the last operation
ExactAddSub(a) ==
    IF last.op \in AddOps THEN last.lhs[a].v + last.rhs[a].v
    ELSE last.lhs[a].v - last.rhs[a].v

BothPresent(a) == last.lhs[a].some /\ last.rhs[a].some

\* v is e reduced modulo 2^I64_BITS into the i64 range
IsWrapOf(v, e) == InI64(v) /\ (v - e) % 2^I64_BITS = 0

C9_ExactAddSub ==
    (last.op \in AddOps \cup SubOps /\ last.res.ok) =>
        \A a \in Axes :
            BothPresent(a) =>
                /\ last.res.val[a].some
                /\ InI64(last.res.val[a].v)
                /\ last.res.val[a].v = ExactAddSub(a)

\* the mathematical value of a finite f64 times FIXED_SCALE, truncated
\* toward zero (the f64 is m * 2^e)
ExactFixed(val) ==
    LET e == val.e + FIXED_SHIFT
    IN  IF e >= 0 THEN val.m * 2^e
        ELSE Sign(val.m) * (Abs(val.m) \div 2^(-e))

\* the f64 times FIXED_SCALE lies outside the true i64 range
OutOfTrueRange(val) ==
    \/ val.k = "inf"
    \/ val.k = "fin" /\ ~InI64(ExactFixed(val))

\* C3: from_f64 fails with OutOfRangeError whenever a present input axis
\* times FIXED_SCALE lies outside the true i64 range (I64_MAX + 1 included),
\* and then produces no position; absent axes never make it fail.
C3_OutOfRange ==
    (last.op = "from_f64") =>
        /\ (\E a \in Axes : last.args[a].some /\ OutOfTrueRange(last.args[a].v))
               => (~last.res.ok /\ last.res.err = OutOfRangeError /\ pos = last.lhs)
        /\ (\A a \in Axes : ~last.args[a].some) => last.res.ok

\* C4: a successful from_f64 stores each present (finite) input axis as the
\* integer v * FIXED_SCALE truncated toward zero and each absent axis as
\* absent; from_raw stores its arguments unchanged.
C4_Conversion ==
    /\ (last.op = "from_f64" /\ last.res.ok) =>
           \A a \in Axes :
               /\ last.res.val[a].some = last.args[a].some
               /\ (last.args[a].some /\ last.args[a].v.k = "fin") =>
                      last.res.val[a].v = ExactFixed(last.args[a].v)
    /\ (last.op = "from_raw") =>
           (last.res.ok /\ \A a \in Axes : last.res.val[a] = last.args[a])

\* q is a / b truncated toward zero
IsTruncQuot(q, a, b) ==
    /\ Abs(q) * Abs(b) <= Abs(a)
    /\ Abs(a) < (Abs(q) + 1) * Abs(b)
    /\ (q # 0 => ((q > 0) <=> ((a > 0) = (b > 0))))

\* the scalar has a fixed-point form within the i64 range
ScalarInRange(s) == s.k = "fin" /\ InI64(ExactFixed(s))

\* the exact rescaled result of one present axis of the last mul or div is
\* q (the divisor of a div is nonzero)
IsRescaled(q, a, f) ==
    IF last.op \in MulOps
    THEN IsTruncQuot(q, last.lhs[a].v * f, FIXED_SCALE)
    ELSE IsTruncQuot(q, last.lhs[a].v * FIXED_SCALE, f)

\* the exact rescaled result of one present axis fits an i64: its magnitude
\* is within the bound of its sign
RescaledFits(a, f) ==
    LET n == IF last.op \in MulOps THEN last.lhs[a].v * f
             ELSE last.lhs[a].v * FIXED_SCALE
        d == IF last.op \in MulOps THEN FIXED_SCALE ELSE f
        mag == Abs(n) \div Abs(d)
    IN  IF (n >= 0) = (d > 0) THEN mag <= I64_MAX ELSE mag <= -I64_MIN

\* C5: for a scalar whose fixed-point form f is in range (and nonzero for a
\* division), p * s holds on each present axis v the value (v * f) /
\* FIXED_SCALE and p / s the value (v * FIXED_SCALE) / f, truncated toward
\* zero and computed without intermediate overflow; a position is returned
\* exactly when each of these fits an i64; every axis absent in p is absent
\* in the result and no absent axis becomes present.  The in-place forms
\* store that value.
C5_MulDivPerAxis ==
    (/\ last.op \in MulOps \cup DivOps
     /\ ScalarInRange(last.scalar)
     /\ (last.op \in DivOps => ExactFixed(last.scalar) # 0)) =>
        LET f == ExactFixed(last.scalar)
        IN  /\ last.res.ok <=>
                   \A a \in Axes : last.lhs[a].some => RescaledFits(a, f)
            /\ last.res.ok =>
                   /\ pos = last.res.val
                   /\ \A a \in Axes :
                          /\ last.res.val[a].some = last.lhs[a].some
                          /\ last.lhs[a].some =>
                                 IsRescaled(last.res.val[a].v, a, f)

\* a multiplication and a division each returned a position with an absent
\* axis left absent and a negative quotient that truncation and flooring
\* tell apart
C5_Witness ==
    /\ last.op \in MulOps
    /\ ScalarInRange(last.scalar)
    /\ last.res.ok
    /\ \E a \in Axes : ~last.lhs[a].some /\ ~last.res.val[a].some
    /\ \E a \in Axes :
           /\ last.lhs[a].some
           /\ last.res.val[a].v < 0
           /\ (last.lhs[a].v * ExactFixed(last.scalar)) % FIXED_SCALE # 0

\* C10: p * s and p / s panic when the scalar's fixed-point conversion is
\* outside the i64 range or when the rescaled result of a present axis is;
\* whenever they return a position, each present axis is the exact rescaled
\* result.
C10_NoInexactMulDiv ==
    (last.op \in MulOps \cup DivOps /\ last.scalar.k # "nan") =>
        /\ OutOfTrueRange(last.scalar) => ~last.res.ok
        /\ last.res.ok =>
               \A a \in Axes : last.lhs[a].some =>
                   /\ last.res.val[a].some
                   /\ IsRescaled(last.res.val[a].v, a, ExactFixed(last.scalar))


(***************************************************************************)
(* Properties of the writer operations.                                    *)
(***************************************************************************)
\* what the last operation added to the destination
Written == SubSeq(sink, Len(wlast.before.sink) + 1, Len(sink))

Extends == Len(sink) >= Len(wlast.before.sink)
           /\ SubSeq(sink, 1, Len(wlast.before.sink)) = wlast.before.sink

\* " <letter><value>" for a present value, nothing for an absent one
Token(letter, a, prec) ==
    IF a.some THEN <<" ", letter>> \o FmtPrec(a.v, prec) ELSE <<>>

FeedOf(options) == IF options.some THEN options.v.feed_rate ELSE None

Count(text, c) == Cardinality({i \in 1..Len(text) : text[i] = c})

Present(a) == IF a.some THEN 1 ELSE 0

\* C2: a successful move_to writes exactly the code (G00 if fast, else
\* G01), then " X<x>" iff X is present, " Y<y>" iff Y is, " Z<z>" iff Z is,
\* " F<feed>" iff options are supplied with a feed rate, in that order, one
\* space before each optional token, nothing for an omitted one and no line
\* terminator.
C2_MoveToTokens ==
    (wlast.op = "move_to" /\ wlast.res.ok) =>
        /\ Extends
        /\ Written =
               (IF wlast.fast THEN <<"G", "0", "0">> ELSE <<"G", "0", "1">>)
               \o Token("X", x_f64(wlast.p), 4)
               \o Token("Y", y_f64(wlast.p), 4)
               \o Token("Z", z_f64(wlast.p), 4)
               \o Token("F", FeedOf(wlast.options), 2)
        /\ Count(Written, " ") =
               Present(wlast.p.x) + Present(wlast.p.y) + Present(wlast.p.z)
               + Present(FeedOf(wlast.options))
        /\ Count(Written, "\n") = 0

\* a move_to without Y and without a feed rate wrote its X and Z tokens
C2_Witness ==
    /\ wlast.op = "move_to"
    /\ wlast.res.ok
    /\ wlast.p.x.some /\ ~wlast.p.y.some /\ wlast.p.z.some
    /\ ~FeedOf(wlast.options).some
    /\ Count(Written, " ") = 2

\* the number of write calls a move_to makes when none fails
WritesOf(in) == 1 + Present(in.p.x) + Present(in.p.y) + Present(in.p.z)
                + Present(FeedOf(in.options))

\* C6: a failing write of the destination makes move_to return IOError and
\* a failing flush makes flush() return IOError, in that very operation,
\* never OutOfRangeError and never success; nothing is retried (move_to
\* stops at the failing write, flush() calls the destination's flush once);
\* flush() succeeds exactly when the destination's flush does.
C6_IoErrors ==
    /\ (wlast.op = "move_to") =>
           /\ wlast.res.ok <=> wlast.failAt = 0
           /\ ~wlast.res.ok => wlast.res.err = IOError
           /\ wlast.writes =
                  IF wlast.failAt = 0 THEN WritesOf(wlast) ELSE wlast.failAt
    /\ (wlast.op = "flush") =>
           /\ wlast.res.ok <=> wlast.failAt = 0
           /\ ~wlast.res.ok => wlast.res.err = IOError
           /\ nflush = wlast.before.nflush + 1

\* a flush() whose destination failed returned IOError
C6_Witness ==
    /\ wlast.op = "flush"
    /\ wlast.failAt # 0
    /\ wlast.res.err = IOError
    /\ Len(sink) > 0

\* C7: a move_to that returns an error has handed none of that call's
\* tokens to the destination.
C7_AllOrNothing ==
    (wlast.op = "move_to" /\ ~wlast.res.ok) => sink = wlast.before.sink

RECURSIVE Concat(_)
Concat(texts) ==
    IF texts = <<>> THEN <<>> ELSE Head(texts).text \o Concat(Tail(texts))

AllSucceeded == \A i \in 1..Len(emitted) : emitted[i].ok

\* C8: when every move_to so far succeeded, the destination holds exactly
\* the concatenation, in call order, of the texts each call emits on its
\* own, with no separator or line terminator; flush() and release add no
\* characters and release does not flush the destination.
C8_Stateless ==
    /\ AllSucceeded =>
           /\ sink = Concat(emitted)
           /\ Count(sink, "\n") = 0
    /\ (wlast.op \in {"flush", "writer"}) => sink = wlast.before.sink
    /\ (wlast.op = "writer") => nflush = wlast.before.nflush

\* the destination was released after two successful move_to calls with
\* different texts
C8_Witness ==
    /\ owner = "caller"
    /\ wlast.op = "writer"
    /\ Len(emitted) = 2
    /\ AllSucceeded
    /\ emitted[1].text # emitted[2].text
    /\ sink = emitted[1].text \o emitted[2].text

=============================================================================
